---------------------------- MODULE Spec2Model ----------------------------
(***************************************************************************)
(* pin-cursor: PinCursor<T>, a !Unpin wrapper around async_std::io::Cursor. *)
(*                                                                         *)
(* The state is one PinCursor value (its inner Cursor: backing buffer and  *)
(* position), where it lives (its address and whether it has been pinned), *)
(* and the record of the operation that completed last.  Every method of   *)
(* src/src/lib.rs is an operator on the wrapper and an action that applies *)
(* it; the Cursor primitives it forwards to are operators of their own.    *)
(* Offsets are far below 2^63, so the u64/i64 arithmetic never wraps.      *)
(***************************************************************************)
EXTENDS Integers, Sequences, FiniteSets, TLC

\* Longest backing buffer, and largest destination of a read.
MaxLen == 3
\* Most segments of one vectored call.
MaxSegs == 2
\* Longest backing buffer while a write is remembered to be read back.
MaxKept == 2

\* The caller's data array of the crate example: &[1u8, 2u8, 3u8].
Source == <<1, 2, 3>>

Min(a, b) == IF a < b THEN a ELSE b
Max(a, b) == IF a < b THEN b ELSE a
Zeros(n) == [i \in 1..n |-> 0]

Byte == {0} \cup {Source[i] : i \in 1..Len(Source)}
Pos == 0..(MaxLen + 1)
Offset == (0 - (MaxLen + 1))..(MaxLen + 1)
Contents == UNION {[1..n -> Byte] : n \in 0..MaxLen}
\* Source buffers of a write: the slices &data[i..j] of the caller's array.
WriteBufs == {SubSeq(Source, i, j) : i \in 1..(Len(Source) + 1), j \in 0..Len(Source)}
\* Destination buffers of a read: [0u8; k].
ReadBufs == {Zeros(k) : k \in 0..MaxLen}
\* A list of at most MaxSegs segments, each drawn from S.
SegLists(S) == UNION {[1..n -> S] : n \in 0..MaxSegs}
RECURSIVE TotalLen(_)
TotalLen(bufs) == IF bufs = <<>> THEN 0 ELSE Len(Head(bufs)) + TotalLen(Tail(bufs))
RECURSIVE Concat(_)
Concat(bufs) == IF bufs = <<>> THEN <<>> ELSE Head(bufs) \o Concat(Tail(bufs))
\* IoSlice lists: the caller's array cut into consecutive segments.
WriteSegs == {bufs \in SegLists(WriteBufs) : Concat(bufs) \in WriteBufs}
\* IoSliceMut lists: zeroed destinations of at most MaxLen bytes in all.
ReadSegs == {bufs \in SegLists(ReadBufs) : TotalLen(bufs) <= MaxLen}

Ok(v) == [ok |-> TRUE, val |-> v]
Err(kind) == [ok |-> FALSE, val |-> kind]
\* io::ErrorKind::InvalidInput, "invalid seek to a negative or overflowing position"
InvalidInput == 0 - 1
\* The () of Result<()>.
Unit == 0


(***************************************************************************)
(* async_std::io::Cursor<T> (a thin wrapper of std::io::Cursor<T>), the    *)
(* primitive every PinCursor method forwards to.  A cursor is               *)
(*   [kind, inner, pos]: kind "vec" for a growable T (Vec<u8>, &mut Vec),  *)
(*   "slice" for a fixed one (&mut [u8]); inner the bytes; pos the offset. *)
(* Each primitive returns the cursor after the call, the io::Result, and   *)
(* the caller's destination buffers after the call.                        *)
(***************************************************************************)
Cursors == [kind : {"vec", "slice"}, inner : Contents, pos : Pos]

Cursor_position(c) == c.pos

Cursor_set_position(c, pos) == [c EXCEPT !.pos = pos]

\* Read for Cursor: copy from inner[min(pos, len)..] and advance by the count.
Cursor_read(c, buf) ==
  LET amt == Min(c.pos, Len(c.inner))
      n == Min(Len(buf), Len(c.inner) - amt)
  IN [c |-> [c EXCEPT !.pos = c.pos + n],
      res |-> Ok(n),
      out |-> <<[i \in 1..Len(buf) |-> IF i <= n THEN c.inner[amt + i] ELSE buf[i]]>>]

\* read_vectored: one read per segment, stopping after the first short one.
RECURSIVE ReadSegments(_, _, _, _)
ReadSegments(c, bufs, nread, outs) ==
  IF bufs = <<>> THEN [c |-> c, res |-> Ok(nread), out |-> outs]
  ELSE LET r == Cursor_read(c, Head(bufs))
       IN IF r.res.val < Len(Head(bufs))
            THEN [c |-> r.c, res |-> Ok(nread + r.res.val),
                  out |-> outs \o r.out \o Tail(bufs)]
            ELSE ReadSegments(r.c, Tail(bufs), nread + r.res.val, outs \o r.out)

Cursor_read_vectored(c, bufs) == ReadSegments(c, bufs, 0, <<>>)

\* vec_write: zero-pad up to pos, overwrite or extend, advance by buf.len().
VecPad(inner, pos) == IF Len(inner) < pos THEN inner \o Zeros(pos - Len(inner)) ELSE inner

VecPut(inner, pos, buf) ==
  SubSeq(inner, 1, pos) \o buf \o SubSeq(inner, pos + Len(buf) + 1, Len(inner))

vec_write(c, buf) ==
  [c |-> [c EXCEPT !.inner = VecPut(VecPad(c.inner, c.pos), c.pos, buf),
                   !.pos = c.pos + Len(buf)],
   res |-> Ok(Len(buf)),
   out |-> <<>>]

\* slice_write: write what fits into slice[min(pos, len)..], advance by that.
slice_write(c, buf) ==
  LET pos == Min(c.pos, Len(c.inner))
      amt == Min(Len(buf), Len(c.inner) - pos)
  IN [c |-> [c EXCEPT !.inner = VecPut(c.inner, pos, SubSeq(buf, 1, amt)),
                      !.pos = c.pos + amt],
      res |-> Ok(amt),
      out |-> <<>>]

Cursor_write(c, buf) == IF c.kind = "vec" THEN vec_write(c, buf) ELSE slice_write(c, buf)

\* vec_write_vectored: reserve and pad once for the total, then copy each segment.
vec_write_vectored(c, bufs) ==
  [c |-> [c EXCEPT !.inner = VecPut(VecPad(c.inner, c.pos), c.pos, Concat(bufs)),
                   !.pos = c.pos + TotalLen(bufs)],
   res |-> Ok(TotalLen(bufs)),
   out |-> <<>>]

\* slice_write_vectored: one slice_write per segment, stopping after a short one.
RECURSIVE slice_write_vectored(_, _, _)
slice_write_vectored(c, bufs, nwritten) ==
  IF bufs = <<>> THEN [c |-> c, res |-> Ok(nwritten), out |-> <<>>]
  ELSE LET r == slice_write(c, Head(bufs))
       IN IF r.res.val < Len(Head(bufs))
            THEN [c |-> r.c, res |-> Ok(nwritten + r.res.val), out |-> <<>>]
            ELSE slice_write_vectored(r.c, Tail(bufs), nwritten + r.res.val)

Cursor_write_vectored(c, bufs) ==
  IF c.kind = "vec" THEN vec_write_vectored(c, bufs) ELSE slice_write_vectored(c, bufs, 0)

\* flush and close of a Cursor do nothing and succeed.
Cursor_flush(c) == [c |-> c, res |-> Ok(Unit), out |-> <<>>]

Cursor_close(c) == Cursor_flush(c)

\* SeekFrom::Start(n), SeekFrom::End(n), SeekFrom::Current(n).
SeekFrom == [style : {"Start"}, n : Pos] \cup [style : {"End", "Current"}, n : Offset]

\* Start(n) sets the position; End and Current add the offset to the length or
\* the position (checked_add_signed) and fail, changing nothing, below zero.
Cursor_seek(c, pos) ==
  LET base == IF pos.style = "End" THEN Len(c.inner) ELSE c.pos
      t == IF pos.style = "Start" THEN pos.n ELSE base + pos.n
  IN IF t < 0
       THEN [c |-> c, res |-> Err(InvalidInput), out |-> <<>>]
       ELSE [c |-> [c EXCEPT !.pos = t], res |-> Ok(t), out |-> <<>>]


(***************************************************************************)
(* PinCursor<T>: the Cursor and the PhantomPinned marker.                  *)
(***************************************************************************)
PhantomPinned == "PhantomPinned"

wrap(c) == [c |-> c, _p |-> PhantomPinned]

unwrap(self) == self.c

\* The struct without its marker field.
PinCursor_Unpin_no_marker(self) == TRUE

\* The auto trait: a struct is Unpin when every field is; Cursor<T> is (T: Unpin),
\* PhantomPinned is not.
PinCursor_Unpin(self) == self._p # PhantomPinned

\* pin_project!'s projection: &mut c (not structurally pinned) and Pin<&mut _p>.
project(self) == [c |-> self.c, _p |-> self._p]

\* The wrapper after the call on the projected cursor, with the call's result.
Forward(self, r) == [w |-> [self EXCEPT !.c = r.c], res |-> r.res, out |-> r.out]

position(self) == Cursor_position(self.c)

\* The offset clamped to the length of the content.
set_position_clamped(self, pos) ==
  LET c == project(self).c
  IN [w |-> [self EXCEPT !.c = Cursor_set_position(c, Min(pos, Len(c.inner)))],
      res |-> Ok(Unit), out |-> <<>>]

set_position(self, pos) ==
  [w |-> [self EXCEPT !.c = Cursor_set_position(project(self).c, pos)],
   res |-> Ok(Unit), out |-> <<>>]

\* The call made on a copy of the cursor: its result, no effect.
write_on_copy(self, buf) == [Forward(self, Cursor_write(project(self).c, buf)) EXCEPT !.w = self]

write(self, buf) == Forward(self, Cursor_write(project(self).c, buf))

\* The bytes read are taken out of the buffer.
read_draining(self, buf) ==
  LET r == Cursor_read(project(self).c, buf)
      c == project(self).c
      amt == Min(c.pos, Len(c.inner))
  IN [w |-> [self EXCEPT !.c.inner = SubSeq(c.inner, 1, amt) \o
                                       SubSeq(c.inner, amt + r.res.val + 1, Len(c.inner))],
      res |-> r.res, out |-> r.out]

read(self, buf) == Forward(self, Cursor_read(project(self).c, buf))

\* The target clamped at zero instead of refused.
seek_clamping(self, pos) ==
  LET c == project(self).c
      base == IF pos.style = "End" THEN Len(c.inner) ELSE c.pos
      t == IF pos.style = "Start" THEN pos.n ELSE Max(base + pos.n, 0)
  IN [w |-> [self EXCEPT !.c = Cursor_set_position(c, t)], res |-> Ok(t), out |-> <<>>]

seek(self, pos) == Forward(self, Cursor_seek(project(self).c, pos))

\* The call made on a copy of the cursor: its result, no effect.
poll_read_on_copy(self, buf) == [Forward(self, Cursor_read(project(self).c, buf)) EXCEPT !.w = self]

poll_read(self, buf) == Forward(self, Cursor_read(project(self).c, buf))

\* The trait's provided method: one poll_read into the first segment that is
\* not empty.
RECURSIVE FirstNonEmpty(_, _)
FirstNonEmpty(bufs, i) ==
  IF i > Len(bufs) THEN 0 ELSE IF bufs[i] # <<>> THEN i ELSE FirstNonEmpty(bufs, i + 1)

poll_read_vectored_default(self, bufs) ==
  LET i == FirstNonEmpty(bufs, 1)
      r == Forward(self, Cursor_read(project(self).c, IF i = 0 THEN <<>> ELSE bufs[i]))
  IN [r EXCEPT !.out = [j \in 1..Len(bufs) |-> IF j = i THEN r.out[1] ELSE bufs[j]]]

poll_read_vectored(self, bufs) == Forward(self, Cursor_read_vectored(project(self).c, bufs))

\* The call made on a copy of the cursor: its result, no effect.
poll_write_on_copy(self, buf) == [Forward(self, Cursor_write(project(self).c, buf)) EXCEPT !.w = self]

poll_write(self, buf) == Forward(self, Cursor_write(project(self).c, buf))

\* The trait's provided method: one poll_write of the first segment that is
\* not empty.
poll_write_vectored_default(self, bufs) ==
  LET i == FirstNonEmpty(bufs, 1)
  IN Forward(self, Cursor_write(project(self).c, IF i = 0 THEN <<>> ELSE bufs[i]))

poll_write_vectored(self, bufs) == Forward(self, Cursor_write_vectored(project(self).c, bufs))

poll_flush(self) == Forward(self, Cursor_flush(project(self).c))

poll_close(self) == Forward(self, Cursor_close(project(self).c))

\* The call made on a copy of the cursor: its result, no effect.
poll_seek_on_copy(self, pos) == [Forward(self, Cursor_seek(project(self).c, pos)) EXCEPT !.w = self]

poll_seek(self, pos) == Forward(self, Cursor_seek(project(self).c, pos))

\* stackpin's FromUnpinned: build the value in place, then a fix-up that does nothing.
PinData == Unit

from_unpinned(src) == <<wrap(src), PinData>>

on_pin(self, pin_data) == self

(***************************************************************************)
(* The state.                                                              *)
(***************************************************************************)
VARIABLES
  w,         \* the PinCursor
  stage,     \* "value": owned by value; "pinned": behind Pin<Box<_>> or a stack
             \* pin; "unwrapped": consumed by unwrap
  addr,      \* where the PinCursor lives
  pinnedAt,  \* its address when it was pinned, "none" before
  last,      \* the operation that completed last, op "none" once its result is taken
  doc,       \* how many steps of the crate example have run, -1 off the example
  mark       \* one write the caller remembers, to read it back later: where it
             \* started, its bytes, the count it returned, and whether a later
             \* write has since touched or followed it

vars == <<w, stage, addr, pinnedAt, last, doc, mark>>

Addr == {"stack_a", "stack_b", "heap"}

NoArg == [style |-> "", n |-> 0, bufs |-> <<>>]
BufArg(buf) == [style |-> "", n |-> 0, bufs |-> <<buf>>]
BufsArg(bufs) == [style |-> "", n |-> 0, bufs |-> bufs]
PosArg(pos) == [style |-> "", n |-> pos, bufs |-> <<>>]
SeekArg(pos) == [style |-> pos.style, n |-> pos.n, bufs |-> <<>>]

Idle(c) == [op |-> "none", arg |-> NoArg, pre |-> c, res |-> Ok(Unit), out |-> <<>>]

\* The crate example: write(&[1, 2, 3]), seek(Start(1)), read(&mut [0; 1]),
\* set_position(0), read(&mut [0; 1]); position() is asked in between.
DocScript ==
  << <<"write", BufArg(<<1, 2, 3>>)>>,
     <<"seek", SeekArg([style |-> "Start", n |-> 1])>>,
     <<"read", BufArg(<<0>>)>>,
     <<"set_position", PosArg(0)>>,
     <<"read", BufArg(<<0>>)>> >>

DocStep(d, op, arg) ==
  IF op = "position" THEN d
  ELSE IF d \in 0..(Len(DocScript) - 1) /\ DocScript[d + 1] = <<op, arg>> THEN d + 1
  ELSE 0 - 1

\* let mut data = Vec::new(); Cursor::new(&mut data)
FreshCursor == [kind |-> "vec", inner |-> <<>>, pos |-> 0]

NoMark == [st |-> "none", p |-> 0, b |-> <<>>, n |-> 0, later |-> FALSE]
Overwritten == [NoMark EXCEPT !.st = "dead"]

\* The remembered write after an operation that took the cursor from c to
\* r.w.c: a later write of k > 0 bytes at q overlaps it when it stored n > 0
\* bytes and [q, q + k) meets [p, p + n), and is otherwise only noted.
MarkAfter(m, op, c, r) ==
  IF m.st # "live" \/ op \notin {"write", "poll_write", "poll_write_vectored"} THEN m
  ELSE LET q == IF c.kind = "vec" THEN c.pos ELSE Min(c.pos, Len(c.inner))
           k == r.res.val
       IN IF k = 0 THEN m
          ELSE IF m.n > 0 /\ q < m.p + m.n /\ m.p < q + k THEN Overwritten
          ELSE [m EXCEPT !.later = TRUE]

\* PinCursor::wrap(cursor): still a plain value.
Init ==
  \E c \in Cursors :
    /\ w = wrap(c)
    /\ stage = "value"
    /\ addr = "stack_a"
    /\ pinnedAt = "none"
    /\ last = Idle(c)
    /\ doc = IF c = FreshCursor THEN 0 ELSE 0 - 1
    /\ mark = NoMark

\* stack_let!: the value is built with from_unpinned, pinned where it stands,
\* and on_pin runs on it.
InitStackLet ==
  \E c \in Cursors :
    /\ w = on_pin(from_unpinned(c)[1], from_unpinned(c)[2])
    /\ stage = "pinned"
    /\ addr = "stack_b"
    /\ pinnedAt = "stack_b"
    /\ last = Idle(c)
    /\ doc = 0 - 1
    /\ mark = NoMark

\* A value is moved (passed, returned, assigned, mem::swap): only an owned value,
\* or one behind a Pin whose target is Unpin (Pin::get_mut, Pin::into_inner).
Movable == stage = "value" \/ (stage = "pinned" /\ PinCursor_Unpin(w))

Move ==
  /\ Movable
  /\ last.op = "none"
  /\ \E a \in Addr \ {addr} : addr' = a
  /\ UNCHANGED <<w, stage, pinnedAt, last, doc, mark>>

\* Box::pin(value): the value moves to the heap and is pinned there.
BoxPin ==
  /\ stage = "value"
  /\ last.op = "none"
  /\ stage' = "pinned"
  /\ addr' = "heap"
  /\ pinnedAt' = "heap"
  /\ UNCHANGED <<w, last, doc, mark>>

\* unwrap(self) takes the PinCursor by value.
Unwrap ==
  /\ Movable
  /\ last.op = "none"
  /\ stage' = "unwrapped"
  /\ last' = [last EXCEPT !.op = "unwrap", !.pre = unwrap(w)]
  /\ UNCHANGED <<w, addr, pinnedAt, doc, mark>>

\* position(&self): any PinCursor that still exists.
Position ==
  /\ stage \in {"value", "pinned"}
  /\ last.op = "none"
  /\ last' = [op |-> "position", arg |-> NoArg, pre |-> w.c,
              res |-> Ok(position(w)), out |-> <<>>]
  /\ UNCHANGED <<w, stage, addr, pinnedAt, doc, mark>>

\* A method taking Pin<&mut Self> runs to completion: the Cursor's futures are
\* ready at their first poll.  Growth is capped at MaxLen bytes and MaxLen + 1.
Run(op, arg, r) ==
  /\ stage = "pinned"
  /\ last.op = "none"
  /\ Len(r.w.c.inner) <= MaxLen
  /\ r.w.c.pos \in Pos
  /\ w' = r.w
  /\ last' = [op |-> op, arg |-> arg, pre |-> w.c, res |-> r.res, out |-> r.out]
  /\ doc' = DocStep(doc, op, arg)
  /\ UNCHANGED <<stage, addr, pinnedAt>>

Complete(op, arg, r) ==
  /\ Run(op, arg, r)
  /\ mark' = MarkAfter(mark, op, w.c, r)

SetPosition == \E pos \in Pos : Complete("set_position", PosArg(pos), set_position(w, pos))

Write == \E buf \in WriteBufs : Complete("write", BufArg(buf), write(w, buf))

\* write(buf), and the caller remembers it.
WriteRemembered ==
  \E buf \in WriteBufs :
    /\ mark.st = "none"
    /\ Len(write(w, buf).w.c.inner) <= MaxKept
    /\ Run("write", BufArg(buf), write(w, buf))
    /\ mark' = [st |-> "live", p |-> w.c.pos, b |-> buf, n |-> write(w, buf).res.val,
                later |-> FALSE]

Read == \E buf \in ReadBufs : Complete("read", BufArg(buf), read(w, buf))

Seek == \E pos \in SeekFrom : Complete("seek", SeekArg(pos), seek(w, pos))

PollRead == \E buf \in ReadBufs : Complete("poll_read", BufArg(buf), poll_read(w, buf))

PollReadVectored ==
  \E bufs \in ReadSegs : Complete("poll_read_vectored", BufsArg(bufs), poll_read_vectored(w, bufs))

PollWrite == \E buf \in WriteBufs : Complete("poll_write", BufArg(buf), poll_write(w, buf))

PollWriteVectored ==
  \E bufs \in WriteSegs : Complete("poll_write_vectored", BufsArg(bufs), poll_write_vectored(w, bufs))

PollFlush == Complete("poll_flush", NoArg, poll_flush(w))

PollClose == Complete("poll_close", NoArg, poll_close(w))

PollSeek == \E pos \in SeekFrom : Complete("poll_seek", SeekArg(pos), poll_seek(w, pos))

\* The caller takes the result; the borrow of the PinCursor ends.
Take ==
  /\ stage \in {"value", "pinned"}
  /\ last.op # "none"
  /\ last' = Idle(w.c)
  /\ UNCHANGED <<w, stage, addr, pinnedAt, doc, mark>>

Next ==
  \/ Move
  \/ BoxPin
  \/ Unwrap
  \/ Position
  \/ SetPosition
  \/ Write
  \/ Read
  \/ Seek
  \/ PollRead
  \/ PollReadVectored
  \/ PollWrite
  \/ PollWriteVectored
  \/ PollFlush
  \/ PollClose
  \/ PollSeek
  \/ Take

Spec == Init /\ [][Next]_vars

\* An operation run to completion whose result the caller takes at once.  While
\* a write is remembered, growth is capped at MaxKept bytes and MaxKept + 1.
Taken(op, arg, r) ==
  /\ stage = "pinned"
  /\ mark.st = "live"
  /\ last.op = "none"
  /\ Len(r.w.c.inner) <= MaxKept
  /\ r.w.c.pos <= MaxKept + 1
  /\ w' = r.w
  /\ last' = Idle(r.w.c)
  /\ doc' = DocStep(doc, op, arg)
  /\ mark' = MarkAfter(mark, op, w.c, r)
  /\ UNCHANGED <<stage, addr, pinnedAt>>

\* What the caller does between a write and reading it back: it moves the
\* position, reads, flushes, closes, and writes over the remembered bytes or
\* elsewhere.
Between ==
  \/ \E pos \in Pos : Taken("set_position", PosArg(pos), set_position(w, pos))
  \/ \E pos \in SeekFrom : Taken("seek", SeekArg(pos), seek(w, pos))
  \/ \E buf \in WriteBufs : Taken("write", BufArg(buf), write(w, buf))
  \/ \E buf \in WriteBufs : Taken("poll_write", BufArg(buf), poll_write(w, buf))
  \/ \E bufs \in WriteSegs :
       Taken("poll_write_vectored", BufsArg(bufs), poll_write_vectored(w, bufs))
  \/ \E pos \in SeekFrom : Taken("poll_seek", SeekArg(pos), poll_seek(w, pos))
  \/ \E buf \in ReadBufs : Taken("read", BufArg(buf), read(w, buf))
  \/ \E buf \in ReadBufs : Taken("poll_read", BufArg(buf), poll_read(w, buf))
  \/ Taken("poll_flush", NoArg, poll_flush(w))
  \/ Taken("poll_close", NoArg, poll_close(w))

\* The caller reads the remembered write back: with the position where the write
\* began, read(&mut [0; len(b)]).
ReadRemembered ==
  /\ mark.st = "live"
  /\ w.c.pos = mark.p
  /\ Complete("read", BufArg(Zeros(Len(mark.b))), read(w, Zeros(Len(mark.b))))

\* PinCursor::wrap(cursor) over at most MaxKept bytes.
InitRoundTrip ==
  /\ Init
  /\ Len(w.c.inner) <= MaxKept
  /\ w.c.pos <= MaxKept + 1

\* The caller that remembers its first write, then writes elsewhere or over it,
\* moves the position and reads, for as long as the remembered bytes stand.  The
\* first write starts from any cursor, as InitRoundTrip draws every one.
NextRoundTrip ==
  \/ BoxPin
  \/ WriteRemembered
  \/ Between
  \/ ReadRemembered
  \/ Take

SpecRoundTrip == InitRoundTrip /\ [][NextRoundTrip]_vars


\* With the stackpin feature: either way of construction.
SpecStackPin == (Init \/ InitStackLet) /\ [][Next]_vars


(***************************************************************************)
(* The properties.  A state with last.op # "none" is the state right after *)
(* that operation: last.pre is the inner cursor before it, last.arg its    *)
(* arguments, last.res and last.out what it returned, w the PinCursor      *)
(* after it.                                                               *)
(***************************************************************************)
Seeks == {"seek", "poll_seek"}
Reads == {"read", "poll_read"}
Writes == {"write", "poll_write"}
Pinned == {"set_position", "poll_read_vectored", "poll_write_vectored", "poll_flush",
           "poll_close"} \cup Seeks \cup Reads \cup Writes

\* C1: once the PinCursor is pinned (Box::pin or a stack pin), after any sequence
\* of operations through the pin it is still pinned and still lives at the
\* address it was pinned at, and neither unwrap nor a move is available.
C1_PinnedStaysPut ==
  pinnedAt # "none" =>
    /\ stage = "pinned"
    /\ addr = pinnedAt
    /\ ~ENABLED Unwrap
    /\ ~ENABLED Move

\* A vectored write through a Pin<Box<_>> has grown the buffer where it stood.
C1_Witness ==
  /\ pinnedAt = "heap"
  /\ last.op = "poll_write_vectored"
  /\ Len(w.c.inner) > Len(last.pre.inner)
  /\ addr = "heap"

\* The same operation applied to the inner Cursor itself.
Direct(op, arg, c) ==
  CASE op = "set_position" -> [c |-> Cursor_set_position(c, arg.n), res |-> Ok(Unit), out |-> <<>>]
    [] op \in Reads -> Cursor_read(c, arg.bufs[1])
    [] op \in Writes -> Cursor_write(c, arg.bufs[1])
    [] op \in Seeks -> Cursor_seek(c, [style |-> arg.style, n |-> arg.n])
    [] op = "poll_read_vectored" -> Cursor_read_vectored(c, arg.bufs)
    [] op = "poll_write_vectored" -> Cursor_write_vectored(c, arg.bufs)
    [] op = "poll_flush" -> Cursor_flush(c)
    [] op = "poll_close" -> Cursor_close(c)

\* C2: every operation through the PinCursor returns what the same operation on
\* the inner Cursor returns and leaves the content and position it leaves; the
\* wrapper is the cursor and the marker, nothing else.
C2_PassThrough ==
  last.op \in Pinned =>
    LET d == Direct(last.op, last.arg, last.pre)
    IN /\ w.c = d.c
       /\ last.res = d.res
       /\ last.out = d.out
       /\ w = wrap(w.c)

\* A short vectored write over a fixed buffer was passed through.
C2_Witness ==
  /\ last.op = "poll_write_vectored"
  /\ last.pre.kind = "slice"
  /\ last.res.val > 0
  /\ last.res.val < TotalLen(last.arg.bufs)

SeekBase(c, arg) == IF arg.style = "End" THEN Len(c.inner) ELSE c.pos

\* C4: a seek from the end or from the current position whose target is below
\* zero fails with InvalidInput, and position() is what it was.
C4_NegativeSeekFails ==
  (/\ last.op \in Seeks
   /\ last.arg.style \in {"End", "Current"}
   /\ SeekBase(last.pre, last.arg) + last.arg.n < 0) =>
    /\ last.res = Err(InvalidInput)
    /\ position(w) = Cursor_position(last.pre)

C4_Witness ==
  /\ last.op = "seek"
  /\ last.arg.style = "Current"
  /\ last.pre.pos = 2
  /\ last.arg.n = 0 - 3
  /\ ~last.res.ok

\* C5: seek(SeekFrom::Start(p)) with 0 <= p <= len returns p, and position() is p.
C5_SeekStart ==
  (/\ last.op \in Seeks
   /\ last.arg.style = "Start"
   /\ last.arg.n <= Len(last.pre.inner)) =>
    /\ last.res = Ok(last.arg.n)
    /\ position(w) = last.arg.n

C5_Witness ==
  /\ last.op = "seek"
  /\ last.arg.style = "Start"
  /\ last.arg.n = 1
  /\ last.pre.pos = 3
  /\ Len(last.pre.inner) = 3
  /\ position(w) = 1

\* A read back of the remembered write: a read into len(b) bytes, started at the
\* position the write started at, with no overlapping write since.
ReadsBack ==
  /\ last.op \in Reads
  /\ mark.st = "live"
  /\ last.pre.pos = mark.p
  /\ Len(last.arg.bufs[1]) = Len(mark.b)

\* C3 as stated: whatever the buffer, the read back returns len(b) and yields b.
C3_RoundTrip_AnyBuffer ==
  ReadsBack =>
    /\ last.res = Ok(Len(mark.b))
    /\ last.out = <<mark.b>>

\* C3, amended: with the position set back to p and no overlapping write in
\* between (other writes, reads and seeks may have run), over a growable buffer
\* the read back returns len(b) and yields b; over a fixed buffer the write
\* returned a count n <= len(b) and the read back returns n and yields the first
\* n bytes of b.
C3_RoundTrip ==
  /\ mark.st = "live" =>
        /\ mark.n <= Len(mark.b)
        /\ w.c.kind = "vec" => mark.n = Len(mark.b)
  /\ ReadsBack =>
        /\ last.res = Ok(mark.n)
        /\ last.out = <<SubSeq(mark.b, 1, mark.n) \o Zeros(Len(mark.b) - mark.n)>>

\* A byte was written, a later write went elsewhere, the position was set back
\* and the byte was read back.
C3_Witness ==
  /\ ReadsBack
  /\ mark.later
  /\ w.c.kind = "vec"
  /\ mark.b = <<2>>
  /\ mark.p = 1
  /\ last.out = << <<2>> >>

\* C6: set_position(p) returns at once, cannot fail, position() is then p, and the
\* bytes the next read or write transfers are those at offsets p, p + 1, ...
C6_SetPosition ==
  last.op = "set_position" =>
    LET p == last.arg.n
    IN /\ last.res = Ok(Unit)
       /\ position(w) = p
       /\ w.c.inner = last.pre.inner
       /\ \A buf \in ReadBufs :
            LET r == read(w, buf)
            IN \A i \in 1..r.res.val : r.out[1][i] = w.c.inner[p + i]
       /\ \A buf \in WriteBufs :
            LET r == write(w, buf)
            IN SubSeq(r.w.c.inner, p + 1, p + r.res.val) = SubSeq(buf, 1, r.res.val)

\* The position was set past the end of the content.
C6_Witness ==
  /\ last.op = "set_position"
  /\ last.arg.n > Len(w.c.inner)
  /\ last.pre.pos = 0
  /\ position(w) = last.arg.n

\* One poll_read per segment, in order.
RECURSIVE SingleReads(_, _, _, _)
SingleReads(self, bufs, total, outs) ==
  IF bufs = <<>> THEN [w |-> self, res |-> Ok(total), out |-> outs]
  ELSE LET r == poll_read(self, Head(bufs))
       IN SingleReads(r.w, Tail(bufs), total + r.res.val, outs \o r.out)

\* One poll_write per segment, in order.
RECURSIVE SingleWrites(_, _, _)
SingleWrites(self, bufs, total) ==
  IF bufs = <<>> THEN [w |-> self, res |-> Ok(total), out |-> <<>>]
  ELSE LET r == poll_write(self, Head(bufs))
       IN SingleWrites(r.w, Tail(bufs), total + r.res.val)

VectoredAsSingles ==
  LET each == IF last.op = "poll_read_vectored"
                THEN SingleReads(wrap(last.pre), last.arg.bufs, 0, <<>>)
                ELSE SingleWrites(wrap(last.pre), last.arg.bufs, 0)
  IN /\ last.res = each.res
     /\ last.out = each.out
     /\ w = each.w

\* C7 as stated: for every list of segments, the empty one too.
C7_Vectored_AnyList ==
  last.op \in {"poll_read_vectored", "poll_write_vectored"} => VectoredAsSingles

\* C7, amended: a vectored read over any list of segments, and a vectored write
\* over a list of at least one segment, returns the total count, fills the
\* segments and leaves the content and position as one read or write per segment
\* in order does.  (A vectored write of no segment is not a no-op: on a Vec it
\* zero-fills the content up to a position past its end.)
C7_Vectored ==
  (\/ last.op = "poll_read_vectored"
   \/ last.op = "poll_write_vectored" /\ last.arg.bufs # <<>>) => VectoredAsSingles

\* Two segments were read, the second short.
C7_Witness ==
  /\ last.op = "poll_read_vectored"
  /\ Len(last.arg.bufs) = 2
  /\ Len(last.arg.bufs[1]) = 1
  /\ Len(last.arg.bufs[2]) = 2
  /\ last.res = Ok(2)
  /\ last.out[1][1] # 0
  /\ last.out[2][1] # 0

\* C8: over a growable buffer a write of n bytes at p returns n and leaves the
\* position at p + n and at least p + n bytes of content; and the crate example
\* returns what it asserts.
C8_WriteGrows ==
  /\ (last.op \in Writes /\ last.pre.kind = "vec") =>
       LET n == Len(last.arg.bufs[1])
           p == last.pre.pos
       IN /\ last.res = Ok(n)
          /\ position(w) = p + n
          /\ Len(w.c.inner) >= p + n
  /\ (doc = 1 /\ last.op = "write") => last.res = Ok(3) /\ position(w) = 3
  /\ (doc = 1 /\ last.op = "position") => last.res = Ok(3)
  /\ (doc = 2 /\ last.op = "seek") => last.res = Ok(1)
  /\ (doc = 2 /\ last.op = "position") => last.res = Ok(1)
  /\ (doc = 3 /\ last.op = "read") => last.res = Ok(1) /\ last.out = << <<2>> >>
  /\ (doc = 5 /\ last.op = "read") => last.res = Ok(1) /\ last.out = << <<1>> >>

\* The crate example has run to its last read.
C8_Witness ==
  /\ doc = 5
  /\ last.op = "read"
  /\ w.c.inner = <<1, 2, 3>>

\* C9: a read into k bytes at position p over L bytes of content succeeds with
\* min(k, max(L - p, 0)), fills that many bytes from content[p] on, leaves the
\* rest of the destination alone, and advances the position by that count.
C9_ShortRead ==
  last.op \in Reads =>
    LET k == Len(last.arg.bufs[1])
        p == last.pre.pos
        L == Len(last.pre.inner)
        n == Min(k, Max(L - p, 0))
    IN /\ last.res = Ok(n)
       /\ last.out = <<SubSeq(last.pre.inner, p + 1, p + n) \o Zeros(k - n)>>
       /\ position(w) = p + n

\* A read of three bytes with one byte left.
C9_Witness ==
  /\ last.op = "poll_read"
  /\ Len(last.arg.bufs[1]) = 3
  /\ last.pre.pos = 2
  /\ Len(last.pre.inner) = 3
  /\ last.res = Ok(1)

\* C10: position() changes nothing; a failed seek changes nothing; only write and
\* vectored write change the content, everything else at most the position.
C10_Frame ==
  /\ last.op = "position" => w.c = last.pre
  /\ (last.op \in Seeks /\ ~last.res.ok) => w.c = last.pre
  /\ w.c.kind = last.pre.kind
  /\ w.c.inner # last.pre.inner => last.op \in Writes \cup {"poll_write_vectored"}

\* A read moved the position and left the content.
C10_Witness ==
  /\ last.op = "read"
  /\ w.c.pos = last.pre.pos + 2
  /\ w.c.inner = last.pre.inner
  /\ w.c.inner # <<>>

=============================================================================
